---- MODULE Spec2Model ----
(***************************************************************************)
(* The multi-account dispatch engine of TurboNIW_Email_Sender:             *)
(* GmailAPISender.process_csv and its account_worker threads               *)
(* (send_emails_gmail_api.py), with the stop flag of web_app/app.py.       *)
(* EmailSender (send_emails_smtp.py) has the same worker loop without the  *)
(* bounce checks.                                                          *)
(*                                                                         *)
(* One behaviour is a sequence of runs of process_csv on one recipient     *)
(* list (csv), each run in a fresh sender object that loads the history    *)
(* file and the config file the earlier runs left behind.                  *)
(* Every block of code that runs under history_lock, and every single call *)
(* on the thread-safe Queue, is one atomic step.                           *)
(***************************************************************************)
EXTENDS Integers, Sequences, FiniteSets, TLC

\* ---- bounds of the model
MaxRows == 2
DailyLimit == 2
MaxRuns == 2
\* sending.delay_min_seconds and sending.delay_max_seconds of the config
delay_min_seconds == 1
delay_max_seconds == 2

\* messages the mailbox query returns (the code asks for at most 50)
MaxMessages == 2

\* start requests the web app accepts
MaxStarts == 3

\* ---- program constants
BounceCheckSeconds == 120
BounceCheckEmails == 50

\* the gmail_api accounts of the config file
Accounts == {"acc1", "acc2"}
\* the Email column of a row, stripped: "w" is on the test_whitelist of the
\* config, "bl" is on its blacklist (written there as "Bl"), "bad" does not
\* match the pattern of validate_email
Addresses == {"r1", "r2", "w", "bl", "bad"}
test_whitelist == {"w"}
blacklist == {"Bl"}
malformed == {"bad"}
None == "none"
\* two threads (of one sender or of two) that are in a call on the config file
Callers == {"t1", "t2"}
NoCall == [kind |-> None, account |-> None]
NotRun == [ran |-> FALSE, detected |-> FALSE, examined |-> 0, announced |-> {}]
NoRead == [account |-> None, mailbox |-> None]
\* the threads start_sending can create
Threads == 1..MaxStarts
NoMonCall == [account |-> None, first |-> FALSE, elapsed |-> 0, cnt |-> 0,
              sends |-> 0, queried |-> FALSE]

\* account.get('daily_limit', 2000) of every account
daily_limit(a) == DailyLimit

\* what one call of service.users().messages().send(...).execute(), with the
\* steps of send_email before it, can do
\*   ok          the API call returns
\*   rate_limit  HttpError 429, or 403 / any text naming a sending limit
\*   credentials FileNotFoundError, or an error whose text names credentials
\*               or a file (a 401 "invalid authentication credentials")
\*   auth_other  HttpError 401/403 whose text names none of these
\*   transient   any other HttpError or exception
SendOutcomes == {"ok", "rate_limit", "credentials", "auth_other", "transient"}
\* what the mailbox query of check_rate_limit_bounce can find
Mailbox == {"empty", "bounce", "error"}

VARIABLES
    run,                \* number of the current run of process_csv
    csv,                \* the rows of the recipient file (addresses)
    max_emails,         \* process_csv(max_emails=...): --max (0: None or 0)
    test_mode,          \* process_csv(test_mode=...): --test
    file_history,       \* the sent_history file
    cfg_enabled,        \* config file: the 'enabled' of each account
    cfg_disabled_until, \* config file: the account has a 'disabled_until'
    history,            \* self.history
    failed_accounts,    \* self.failed_accounts
    last_bounce_check,  \* accounts with an entry in self.last_bounce_check
    emails_sent_since_check, \* self.emails_sent_since_check
    queue,              \* recipient_queue: the items
    unfinished_tasks,   \* recipient_queue.unfinished_tasks (put: +1, task_done: -1)
    account_stats,      \* stats['account_stats']
    active_accounts,    \* accounts given a worker in this run
    max_parallel,       \* max_workers of the ThreadPoolExecutor
    pc,                 \* where each account_worker is
    recipient,          \* the recipient each worker holds
    coord,              \* where process_csv is
    sending_active,     \* app.py: global sending_active (stop flag = ~sending_active)
    \* ---- history variables (observations, never read by the program)
    sendsOK,            \* per address: Transport.Send successes in this run
    last_outcome,       \* per account: outcome of its last Transport.Send
    sentBefore,         \* addresses whose send succeeded in an earlier run
    recordReturned,     \* addresses for which a record_sent_email has returned
    stopRequested,      \* stop_sending was called in this run
    sentAfterStop,      \* accounts that called Transport.Send after that
    skipped,            \* recipients the double-check of a worker skipped in
                        \* this run
    monitor_error,      \* the account whose bounce check could not read the
                        \* mailbox in the step just taken (None: no such step)
    delay,              \* per worker: the seconds it slept in the step just
                        \* taken (0: it did not sleep)
    mailbox_read,       \* the account whose bounce check queried the mailbox
                        \* in the step just taken, and what the mailbox held
                        \* (NoRead: no query in the step)
    expired,            \* the accounts for which now >= disable_time held
                        \* when the step just taken started a run ({}: the
                        \* step started no run)
    \* ---- threads inside disable_account_for_24h or the re-enable block of
    \* is_account_disabled, seen step by step (SpecDisable)
    call_op,            \* per caller: what it calls, and for which account
    call_pc,            \* per caller: where it is in the call
    call_cfg,           \* per caller: the config its json.load returned
                        \* (None: not loaded)
    \* ---- the calls of check_rate_limit_bounce of a worker that goes on
    \* sending, seen call by call with the time between them (SpecMonitor)
    mon_clock,          \* per account: seconds since its last performed check
                        \* (current_time - last_bounce_check[a])
    mon_sends,          \* per account: sends counted since its last performed
                        \* check (observation)
    mon_call,           \* the call made in the step just taken (observation)
    \* ---- one mailbox query of check_rate_limit_bounce, message by message
    \* (SpecClassify)
    messages,           \* results.get('messages', []) of the query
    signal,             \* what the loop over the messages did
    \* ---- web_app/app.py: the sending threads that start requests create
    \* (SpecApp); the flag they share is sending_active
    sending_thread,     \* app.py: global sending_thread (0: None)
    thread_pc,          \* per thread: where send_emails_worker_direct is
    thread_left         \* per thread: recipients its process_csv has queued

progVars == <<run, csv, max_emails, test_mode, file_history, cfg_enabled, cfg_disabled_until, history, failed_accounts,
              last_bounce_check, emails_sent_since_check, queue,
              unfinished_tasks, account_stats, active_accounts,
              max_parallel, pc, recipient, coord, sending_active>>
obsVars == <<sendsOK, last_outcome, sentBefore, recordReturned,
             stopRequested, sentAfterStop, skipped>>
callVars == <<call_op, call_pc, call_cfg>>
monCallVars == <<mon_clock, mon_sends, mon_call>>
classifyVars == <<messages, signal>>
appVars == <<sending_thread, thread_pc, thread_left>>
unitVars == <<callVars, monCallVars, classifyVars, appVars>>
vars == <<progVars, obsVars, monitor_error, mailbox_read, delay, expired,
          unitVars>>

\* ------------------------------------------------------------------------
\* Ledger
\* ------------------------------------------------------------------------


\* str.lower() on the strings of the model
Lower(e) == IF e = "Bl" THEN "bl" ELSE e

\* validate_email(email)
ValidateEmail(email) == email \notin malformed

\* a blacklist test that compares the entries as they are written
IsBlacklistedCaseSensitive(email) == email \in blacklist

\* is_blacklisted(email)
IsBlacklisted(email) == Lower(email) \in {Lower(e) : e \in blacklist}

\* is_already_sent(email) against a history h
IsAlreadySentIn(h, email) ==
    IF Lower(email) \in {Lower(e) : e \in test_whitelist} THEN FALSE
    ELSE h.recipients[Lower(email)] > 0

\* a double-check that never finds the address
IsAlreadySentNever(email) == FALSE

IsAlreadySent(email) == IsAlreadySentIn(history, email)

RECURSIVE SumDaily(_, _)
SumDaily(d, S) ==
    IF S = {} THEN 0
    ELSE LET a == CHOOSE x \in S : TRUE
         IN d[a] + SumDaily(d, S \ {a})

\* a record_sent_email that leaves today's total as it was
RecordSentEmailStaleTotal(h, email, a) ==
    [recipients |-> [h.recipients EXCEPT ![Lower(email)] = @ + 1],
     daily      |-> [h.daily EXCEPT ![a] = @ + 1],
     total      |-> h.total]

\* a record_sent_email that counts every send on the first account
RecordSentEmailFirstAccount(h, email, a) ==
    LET d == [h.daily EXCEPT !["acc1"] = @ + 1]
    IN [recipients |-> [h.recipients EXCEPT ![Lower(email)] = @ + 1],
        daily      |-> d,
        total      |-> SumDaily(d, Accounts)]

\* a record_sent_email that writes a fresh entry over an existing one
RecordSentEmailFresh(h, email, a) ==
    LET d == [h.daily EXCEPT ![a] = @ + 1]
    IN [recipients |-> [h.recipients EXCEPT ![email] = 1],
        daily      |-> d,
        total      |-> SumDaily(d, Accounts)]

\* the body of record_sent_email under history_lock: send_count of the
\* recipient (1 when new), the account's counter of today, today's total
RecordSentEmail(h, email, a) ==
    LET d == [h.daily EXCEPT ![a] = @ + 1]
    IN [recipients |-> [h.recipients EXCEPT ![Lower(email)] = @ + 1],
        daily      |-> d,
        total      |-> SumDaily(d, Accounts)]

\* load_history() at the first run: no recipient of the list has been sent
\* to; d are today's counters of the accounts (mail sent earlier today)
StartHistory(d) ==
    [recipients |-> [r \in Addresses |-> 0],
     daily      |-> d,
     total      |-> SumDaily(d, Accounts)]

\* the filter loop of process_csv
RECURSIVE ToSend(_, _)
ToSend(rows, h) ==
    IF rows = <<>> THEN <<>>
    ELSE IF \/ ~ValidateEmail(Head(rows))
            \/ IsBlacklisted(Head(rows))
            \/ IsAlreadySentIn(h, Head(rows))
         THEN ToSend(Tail(rows), h)
    ELSE <<Head(rows)>> \o ToSend(Tail(rows), h)

\* a slice that keeps the whole list
TakeAll(q, n) == q

\* to_send[:n] for n >= 0
Take(q, n) == SubSeq(q, 1, IF n < Len(q) THEN n ELSE Len(q))

\* what process_csv puts into the queue: the filtered rows, cut to max_emails
\* "if max_emails" (not for None or 0), then to one row in test mode
Seed(rows, h, m, t) ==
    LET filtered == ToSend(rows, h)
        capped == IF m # 0 THEN Take(filtered, m) ELSE filtered
    IN IF t THEN Take(capped, 1) ELSE capped

\* ------------------------------------------------------------------------
\* Abuse monitor
\* ------------------------------------------------------------------------

\* a cadence that waits for more than the period and more than the batch
ShouldCheckLate(a, force, elapsed, cnt) ==
    \/ force
    \/ a \notin last_bounce_check
    \/ elapsed > BounceCheckSeconds
    \/ cnt[a] > BounceCheckEmails

\* a cadence that skips the check of an account that has not been checked yet
ShouldCheckNotFirst(a, force, elapsed, cnt) ==
    \/ force
    \/ a \in last_bounce_check /\ elapsed >= BounceCheckSeconds
    \/ cnt[a] >= BounceCheckEmails

\* should_check of check_rate_limit_bounce; elapsed is
\* current_time - last_bounce_check[a], cnt is emails_sent_since_check
ShouldCheck(a, force, elapsed, cnt) ==
    \/ force
    \/ a \notin last_bounce_check
    \/ elapsed >= BounceCheckSeconds
    \/ cnt[a] >= BounceCheckEmails

\* the times the model distinguishes: just checked, or the period is over
ElapsedChoices == {0, BounceCheckSeconds}

\* ------------------------------------------------------------------------
\* A run of process_csv
\* ------------------------------------------------------------------------

\* is_account_disabled(account) for an account the config has with 'enabled'
\* en and a 'disabled_until' du (the timestamps are those isoformat() wrote);
\* past: now >= disable_time
IsAccountDisabled(en, du, past) ==
    IF ~en THEN TRUE
    ELSE IF du THEN ~past
    ELSE FALSE

\* is_account_disabled re-enables: the account has no 'enabled': false, its
\* 'disabled_until' is over; the entry is removed from the config
Reenabled(en, du, past) == en /\ du /\ past

\* active_accounts of process_csv for a config file with the fields en and
\* du, started when now >= disable_time holds for the accounts of past
ActiveAccounts(en, du, past) ==
    {a \in Accounts : ~IsAccountDisabled(en[a], du[a], a \in past)}

\* no worker has slept
NoDelay == [a \in Accounts |-> 0]

InitPc(act) == [a \in Accounts |-> IF a \in act THEN "pending" ELSE None]

\* the web app has started no sending thread
NoThreads ==
    /\ sending_thread = 0
    /\ thread_pc = [t \in Threads |-> "new"]
    /\ thread_left = [t \in Threads |-> 0]

\* the state when the workers of the first run are submitted: process_csv was
\* called with max_emails = m (0: no --max) and test_mode = test
InitRun(m, test) ==
    /\ run = 1
    /\ csv \in [1..MaxRows -> Addresses]
    /\ max_emails = m
    /\ test_mode = test
    /\ \E d \in [Accounts -> 0..DailyLimit] : file_history = StartHistory(d)
    /\ cfg_enabled = [a \in Accounts |-> TRUE]
    /\ cfg_disabled_until = [a \in Accounts |-> FALSE]
    /\ history = file_history
    /\ failed_accounts = {}
    /\ last_bounce_check = {}
    /\ emails_sent_since_check = [a \in Accounts |-> 0]
    /\ queue = Seed(csv, history, max_emails, test_mode)
    /\ unfinished_tasks = Len(queue)
    /\ account_stats = [a \in Accounts |-> [sent |-> 0, failed |-> 0]]
    /\ active_accounts = ActiveAccounts(cfg_enabled, cfg_disabled_until, {})
    /\ max_parallel \in 1..Cardinality(Accounts)
    /\ pc = InitPc(active_accounts)
    /\ recipient = [a \in Accounts |-> None]
    /\ coord = "workers"
    /\ sending_active = TRUE
    /\ sendsOK = [r \in Addresses |-> 0]
    /\ last_outcome = [a \in Accounts |-> None]
    /\ sentBefore = {}
    /\ recordReturned = {}
    /\ stopRequested = FALSE
    /\ sentAfterStop = {}
    /\ skipped = 0
    /\ monitor_error = None
    /\ mailbox_read = NoRead
    /\ delay = NoDelay
    /\ expired = {}
    /\ call_op = [t \in Callers |-> NoCall]
    /\ call_pc = [t \in Callers |-> None]
    /\ call_cfg = [t \in Callers |-> None]
    /\ mon_clock = [a \in Accounts |-> 0]
    /\ mon_sends = [a \in Accounts |-> 0]
    /\ mon_call = NoMonCall
    /\ messages = <<>>
    /\ signal = NotRun
    /\ NoThreads

\* a run from the command line with neither --max nor --test
Init == InitRun(0, FALSE)

\* a recipient file in which every row passes validate_email and is_blacklisted
InitSendable ==
    /\ Init
    /\ \A i \in 1..Len(csv) : ValidateEmail(csv[i]) /\ ~IsBlacklisted(csv[i])

Running(a) == pc[a] \notin {None, "pending", "stopped"}

runVars == <<run, csv, max_emails, test_mode, active_accounts, max_parallel>>
monVars == <<last_bounce_check, emails_sent_since_check>>
queueVars == <<queue, unfinished_tasks>>
fileVars == <<file_history, cfg_enabled, cfg_disabled_until>>

\* stats['sent_count'] and stats['failed_count']: each is incremented together
\* with the account's own counter
sent_count == SumDaily([a \in Accounts |-> account_stats[a].sent], Accounts)
failed_count == SumDaily([a \in Accounts |-> account_stats[a].failed], Accounts)

\* an executor that starts every submitted worker at once
WorkerStartUnbounded(a) ==
    /\ coord = "workers"
    /\ pc[a] = "pending"
    /\ pc' = [pc EXCEPT ![a] = "idle"]
    /\ account_stats' = [account_stats EXCEPT ![a] = [sent |-> 0, failed |-> 0]]
    /\ UNCHANGED <<runVars, monVars, queueVars, fileVars, history,
                   failed_accounts, recipient, coord, sending_active>>
    /\ UNCHANGED obsVars
    /\ monitor_error' = None
    /\ mailbox_read' = NoRead
    /\ delay' = NoDelay
    /\ expired' = {}
    /\ UNCHANGED unitVars

\* the executor gives a pool thread to a submitted account_worker
WorkerStart(a) ==
    /\ coord = "workers"
    /\ pc[a] = "pending"
    /\ Cardinality({b \in Accounts : Running(b)}) < max_parallel
    /\ pc' = [pc EXCEPT ![a] = "idle"]
    /\ account_stats' = [account_stats EXCEPT ![a] = [sent |-> 0, failed |-> 0]]
    /\ UNCHANGED <<runVars, monVars, queueVars, fileVars, history,
                   failed_accounts, recipient, coord, sending_active>>
    /\ UNCHANGED obsVars
    /\ monitor_error' = None
    /\ mailbox_read' = NoRead
    /\ delay' = NoDelay
    /\ expired' = {}
    /\ UNCHANGED unitVars

\* the stop check of the worker loop; the command line sets no stop_check
StopCheck == ~sending_active

\* the limit test with > for >=
QuotaReachedOffByOne(a) == history.daily[a] > daily_limit(a)

\* "if sent_today >= daily_limit", sent_today read under history_lock
QuotaReached(a) == history.daily[a] >= daily_limit(a)

\* "if recipient: recipient_queue.put(recipient)" before a break
PutBackHeld(a) ==
    IF recipient[a] # None
    THEN /\ queue' = Append(queue, recipient[a])
         /\ unfinished_tasks' = unfinished_tasks + 1
    ELSE UNCHANGED queueVars

\* disable_account_for_24h: the account is written as disabled to the config
\* file, unless reading or writing the file raises (persisted = FALSE). The
\* read and the write are one step here; a run reads the file only when it
\* starts, and a write that another thread's write undoes leaves the file as
\* persisted = FALSE does. SpecDisable has the two steps apart.
DisableAccountFor24h(a, persisted) ==
    /\ cfg_enabled' = IF persisted THEN [cfg_enabled EXCEPT ![a] = FALSE]
                      ELSE cfg_enabled
    /\ cfg_disabled_until' = IF persisted
                             THEN [cfg_disabled_until EXCEPT ![a] = TRUE]
                             ELSE cfg_disabled_until

\* the check ran and its mailbox query (or the reading of the listed messages)
\* raised: the account, else None
MonitorError(a, force, elapsed, cnt, mailbox) ==
    IF ShouldCheck(a, force, elapsed, cnt) /\ mailbox = "error" THEN a ELSE None

\* the check ran and its mailbox query was made: the account and what the
\* mailbox held, else NoRead
MailboxRead(a, force, elapsed, cnt, mailbox) ==
    IF ShouldCheck(a, force, elapsed, cnt)
    THEN [account |-> a, mailbox |-> mailbox]
    ELSE NoRead

\* a check that takes a mailbox it cannot read for a bounce
BounceDetectedOrUnreadable(a, force, elapsed, cnt, mailbox) ==
    ShouldCheck(a, force, elapsed, cnt) /\ mailbox \in {"bounce", "error"}

\* check_rate_limit_bounce returns True
BounceDetected(a, force, elapsed, cnt, mailbox) ==
    ShouldCheck(a, force, elapsed, cnt) /\ mailbox = "bounce"

\* a check that disables the account in the config and does not mark it
\* failed
CheckRateLimitBounceNotFailed(a, force, elapsed, cnt, mailbox, persisted) ==
    /\ IF ShouldCheck(a, force, elapsed, cnt)
       THEN /\ last_bounce_check' = last_bounce_check \cup {a}
            /\ emails_sent_since_check' = [cnt EXCEPT ![a] = 0]
       ELSE /\ last_bounce_check' = last_bounce_check
            /\ emails_sent_since_check' = cnt
    /\ IF BounceDetected(a, force, elapsed, cnt, mailbox)
       THEN /\ DisableAccountFor24h(a, persisted)
            /\ failed_accounts' = failed_accounts
       ELSE UNCHANGED <<cfg_enabled, cfg_disabled_until, failed_accounts>>

\* check_rate_limit_bounce(account, service, force_check) with the counter
\* cnt, on a mailbox whose query gives mailbox
CheckRateLimitBounce(a, force, elapsed, cnt, mailbox, persisted) ==
    /\ IF ShouldCheck(a, force, elapsed, cnt)
       THEN /\ last_bounce_check' = last_bounce_check \cup {a}
            /\ emails_sent_since_check' = [cnt EXCEPT ![a] = 0]
       ELSE /\ last_bounce_check' = last_bounce_check
            /\ emails_sent_since_check' = cnt
    /\ IF BounceDetected(a, force, elapsed, cnt, mailbox)
       THEN /\ DisableAccountFor24h(a, persisted)
            /\ failed_accounts' = failed_accounts \cup {a}
       ELSE UNCHANGED <<cfg_enabled, cfg_disabled_until, failed_accounts>>

\* top of the worker loop: stop flag, daily limit, failed account, then the
\* periodic bounce check
WorkerIdle(a) ==
    /\ pc[a] = "idle"
    /\ IF StopCheck \/ QuotaReached(a) \/ a \in failed_accounts
       THEN /\ PutBackHeld(a)
            /\ pc' = [pc EXCEPT ![a] = "stopped"]
            /\ monitor_error' = None
            /\ mailbox_read' = NoRead
            /\ UNCHANGED <<monVars, cfg_enabled, cfg_disabled_until,
                           failed_accounts>>
       ELSE \E elapsed \in ElapsedChoices, mailbox \in Mailbox, persisted \in BOOLEAN :
            /\ CheckRateLimitBounce(a, FALSE, elapsed, emails_sent_since_check,
                                    mailbox, persisted)
            /\ monitor_error' = MonitorError(a, FALSE, elapsed,
                                             emails_sent_since_check, mailbox)
            /\ mailbox_read' = MailboxRead(a, FALSE, elapsed,
                                           emails_sent_since_check, mailbox)
            /\ IF BounceDetected(a, FALSE, elapsed, emails_sent_since_check, mailbox)
               THEN /\ PutBackHeld(a)
                    /\ pc' = [pc EXCEPT ![a] = "stopped"]
               ELSE /\ UNCHANGED queueVars
                    /\ pc' = [pc EXCEPT ![a] = "claim"]
    /\ delay' = NoDelay
    /\ expired' = {}
    /\ UNCHANGED unitVars
    /\ UNCHANGED <<runVars, account_stats, file_history, history, recipient,
                   coord, sending_active>>
    /\ UNCHANGED obsVars

\* recipient_queue.get(timeout=1)
WorkerClaim(a) ==
    /\ pc[a] = "claim"
    /\ IF queue # <<>>
       THEN /\ recipient' = [recipient EXCEPT ![a] = Head(queue)]
            /\ queue' = Tail(queue)
            /\ pc' = [pc EXCEPT ![a] = "recheck"]
       ELSE /\ UNCHANGED <<recipient, queue>>
            /\ pc' = [pc EXCEPT ![a] = "timed_out"]
    /\ UNCHANGED <<runVars, monVars, fileVars, account_stats, unfinished_tasks,
                   history, failed_accounts, coord, sending_active>>
    /\ UNCHANGED obsVars
    /\ monitor_error' = None
    /\ mailbox_read' = NoRead
    /\ delay' = NoDelay
    /\ expired' = {}
    /\ UNCHANGED unitVars

\* after the timeout of get: "if recipient_queue.empty(): break", else continue
WorkerTimedOut(a) ==
    /\ pc[a] = "timed_out"
    /\ pc' = [pc EXCEPT ![a] = IF queue = <<>> THEN "stopped" ELSE "idle"]
    /\ UNCHANGED <<runVars, monVars, queueVars, fileVars, account_stats,
                   history, failed_accounts, recipient, coord, sending_active>>
    /\ UNCHANGED obsVars
    /\ monitor_error' = None
    /\ mailbox_read' = NoRead
    /\ delay' = NoDelay
    /\ expired' = {}
    /\ UNCHANGED unitVars

\* the double-check under history_lock; the lock is released before send_email
WorkerRecheck(a) ==
    /\ pc[a] = "recheck"
    /\ IF IsAlreadySent(recipient[a])
       THEN /\ unfinished_tasks' = unfinished_tasks - 1
            /\ recipient' = [recipient EXCEPT ![a] = None]
            /\ pc' = [pc EXCEPT ![a] = "idle"]
            /\ skipped' = skipped + 1
       ELSE /\ UNCHANGED <<unfinished_tasks, recipient, skipped>>
            /\ pc' = [pc EXCEPT ![a] = "send"]
    /\ UNCHANGED <<runVars, monVars, fileVars, account_stats, queue, history,
                   failed_accounts, coord, sending_active>>
    /\ UNCHANGED <<sendsOK, last_outcome, sentBefore, recordReturned,
                   stopRequested, sentAfterStop>>
    /\ monitor_error' = None
    /\ mailbox_read' = NoRead
    /\ delay' = NoDelay
    /\ expired' = {}
    /\ UNCHANGED unitVars

\* send_email raises to the worker (after adding the account to failed_accounts)
Raises(o) == o \in {"rate_limit", "credentials", "auth_other"}
\* worker: 'rate limit reached' in error_msg.lower()
IsRateLimitMsg(o) == o = "rate_limit"
\* an except block without the test for credentials and file
MentionsNothing(o) == FALSE
\* worker: "credentials" in error_msg.lower() or "file" in error_msg.lower()
MentionsCredentialsOrFile(o) == o = "credentials"
\* the except block testing the rate limit only
PutsBackUnlessRateLimit(o) == ~IsRateLimitMsg(o)

\* worker: the else branch of the except block puts the recipient back
PutsBack(o) == ~(IsRateLimitMsg(o) \/ MentionsCredentialsOrFile(o))

\* a send_email that goes on to record the send after a failed call
ReturnedFalseRecorded(a) ==
    /\ account_stats' = [account_stats EXCEPT ![a].failed = @ + 1]
    /\ UNCHANGED <<queueVars, recipient>>
    /\ pc' = [pc EXCEPT ![a] = "record"]

\* a worker that puts the recipient back when send_email returned False
ReturnedFalsePutBack(a) ==
    /\ account_stats' = [account_stats EXCEPT ![a].failed = @ + 1]
    /\ queue' = Append(queue, recipient[a])
    /\ unfinished_tasks' = unfinished_tasks
    /\ recipient' = [recipient EXCEPT ![a] = None]
    /\ pc' = [pc EXCEPT ![a] = "idle"]

\* the worker after send_email returned False: counted failed, no delay,
\* task_done, recipient cleared, next turn of the loop
ReturnedFalse(a) ==
    /\ account_stats' = [account_stats EXCEPT ![a].failed = @ + 1]
    /\ queue' = queue
    /\ unfinished_tasks' = unfinished_tasks - 1
    /\ recipient' = [recipient EXCEPT ![a] = None]
    /\ pc' = [pc EXCEPT ![a] = "idle"]

\* an except block that neither marks the account failed nor leaves the loop
RaisedToWorkerNoBreak(a, o) ==
    /\ UNCHANGED failed_accounts
    /\ account_stats' = [account_stats EXCEPT ![a].failed = @ + 1]
    /\ queue' = queue
    /\ unfinished_tasks' = unfinished_tasks - 1
    /\ recipient' = [recipient EXCEPT ![a] = None]
    /\ pc' = [pc EXCEPT ![a] = "idle"]

\* the except block of the worker: account failed, recipient dropped
\* (task_done) or put back, break
RaisedToWorker(a, o) ==
    /\ failed_accounts' = failed_accounts \cup {a}
    /\ account_stats' = [account_stats EXCEPT ![a].failed = @ + 1]
    /\ IF PutsBack(o)
       THEN /\ queue' = Append(queue, recipient[a])
            /\ unfinished_tasks' = unfinished_tasks + 1
       ELSE /\ queue' = queue
            /\ unfinished_tasks' = unfinished_tasks - 1
    /\ UNCHANGED recipient
    /\ pc' = [pc EXCEPT ![a] = "stopped"]

\* send_email up to the return of messages().send(): Transport.Send
WorkerSend(a) ==
    /\ pc[a] = "send"
    /\ \E o \in SendOutcomes :
         /\ last_outcome' = [last_outcome EXCEPT ![a] = o]
         /\ sendsOK' = IF o = "ok" THEN [sendsOK EXCEPT ![recipient[a]] = @ + 1]
                       ELSE sendsOK
         /\ IF o = "ok"
            THEN /\ pc' = [pc EXCEPT ![a] = "record"]
                 /\ UNCHANGED <<queueVars, account_stats, failed_accounts, recipient>>
            ELSE IF Raises(o)
            THEN RaisedToWorker(a, o)
            ELSE /\ ReturnedFalse(a)
                 /\ UNCHANGED failed_accounts
    /\ sentAfterStop' = IF stopRequested THEN sentAfterStop \cup {a}
                        ELSE sentAfterStop
    /\ UNCHANGED <<runVars, monVars, fileVars, history, coord, sending_active>>
    /\ UNCHANGED <<sentBefore, recordReturned, stopRequested, skipped>>
    /\ monitor_error' = None
    /\ mailbox_read' = NoRead
    /\ delay' = NoDelay
    /\ expired' = {}
    /\ UNCHANGED unitVars

\* the rest of send_email after a successful send: record_sent_email, the
\* counter of the bounce check, the check; a detected bounce raises inside
\* send_email, which catches it and returns False
WorkerRecord(a) ==
    /\ pc[a] = "record"
    /\ history' = RecordSentEmail(history, recipient[a], a)
    /\ recordReturned' = recordReturned \cup {recipient[a]}
    /\ \E elapsed \in ElapsedChoices, mailbox \in Mailbox, persisted \in BOOLEAN :
         LET cnt == [emails_sent_since_check EXCEPT ![a] = @ + 1]
         IN /\ CheckRateLimitBounce(a, FALSE, elapsed, cnt, mailbox, persisted)
            /\ monitor_error' = MonitorError(a, FALSE, elapsed, cnt, mailbox)
            /\ mailbox_read' = MailboxRead(a, FALSE, elapsed, cnt, mailbox)
            /\ IF BounceDetected(a, FALSE, elapsed, cnt, mailbox)
               THEN ReturnedFalse(a)
               ELSE /\ pc' = [pc EXCEPT ![a] = "save"]
                    /\ UNCHANGED <<account_stats, queueVars, recipient>>
    /\ UNCHANGED <<runVars, file_history, coord, sending_active>>
    /\ UNCHANGED <<sendsOK, last_outcome, sentBefore, stopRequested, sentAfterStop,
                   skipped>>
    /\ delay' = NoDelay
    /\ expired' = {}
    /\ UNCHANGED unitVars

\* a save_history that writes nothing
SaveHistoryNothing == file_history' = file_history

\* save_history(): the file becomes the history in memory
SaveHistory == file_history' = history

\* a random delay that can be shorter than the minimum
RandIntFromZero(lo, hi) == 0..hi

\* random.randint(lo, hi)
RandInt(lo, hi) == lo..hi

\* send_email returned True: counted sent, save_history(), the delay, then
\* task_done and the next turn of the loop
WorkerSave(a) ==
    /\ pc[a] = "save"
    /\ account_stats' = [account_stats EXCEPT ![a].sent = @ + 1]
    /\ SaveHistory
    /\ \E d \in RandInt(delay_min_seconds, delay_max_seconds) :
         delay' = [NoDelay EXCEPT ![a] = d]
    /\ unfinished_tasks' = unfinished_tasks - 1
    /\ recipient' = [recipient EXCEPT ![a] = None]
    /\ pc' = [pc EXCEPT ![a] = "idle"]
    /\ UNCHANGED <<runVars, monVars, queue, cfg_enabled, cfg_disabled_until,
                   history, failed_accounts, coord, sending_active>>
    /\ UNCHANGED obsVars
    /\ monitor_error' = None
    /\ mailbox_read' = NoRead
    /\ expired' = {}
    /\ UNCHANGED unitVars

\* an exception escapes account_worker from a statement outside its try
\* blocks (top of the loop, the get, the double-check): the thread ends, the
\* future keeps the exception, and process_csv catches it at future.result()
WorkerCrash(a) ==
    /\ coord = "workers"
    /\ pc[a] \in {"idle", "claim", "timed_out", "recheck"}
    /\ pc' = [pc EXCEPT ![a] = "stopped"]
    /\ UNCHANGED <<runVars, monVars, queueVars, fileVars, account_stats, history,
                   failed_accounts, recipient, coord, sending_active>>
    /\ UNCHANGED obsVars
    /\ monitor_error' = None
    /\ mailbox_read' = NoRead
    /\ delay' = NoDelay
    /\ expired' = {}
    /\ UNCHANGED unitVars

\* a coordinator that stops waiting when the first worker has ended
AnyStopped == \E a \in active_accounts : pc[a] = "stopped"

AllStopped == \A a \in active_accounts : pc[a] = "stopped"

\* the with-block of the executor ends: every worker has returned
CoordWorkersDone ==
    /\ coord = "workers"
    /\ AllStopped
    /\ coord' = "join"
    /\ UNCHANGED <<runVars, monVars, queueVars, fileVars, account_stats, history,
                   failed_accounts, pc, recipient, sending_active>>
    /\ UNCHANGED obsVars
    /\ monitor_error' = None
    /\ mailbox_read' = NoRead
    /\ delay' = NoDelay
    /\ expired' = {}
    /\ UNCHANGED unitVars

\* recipient_queue.join() returns, the summary is printed
CoordJoin ==
    /\ coord = "join"
    /\ unfinished_tasks = 0
    /\ coord' = "done"
    /\ UNCHANGED <<runVars, monVars, queueVars, fileVars, account_stats, history,
                   failed_accounts, pc, recipient, sending_active>>
    /\ UNCHANGED obsVars
    /\ monitor_error' = None
    /\ mailbox_read' = NoRead
    /\ delay' = NoDelay
    /\ expired' = {}
    /\ UNCHANGED unitVars

\* app.py stop_sending
StopSending ==
    /\ sending_active
    /\ coord = "workers"
    /\ sending_active' = FALSE
    /\ stopRequested' = TRUE
    /\ UNCHANGED <<runVars, monVars, queueVars, fileVars, account_stats, history,
                   failed_accounts, pc, recipient, coord>>
    /\ UNCHANGED <<sendsOK, last_outcome, sentBefore, recordReturned, sentAfterStop,
                   skipped>>
    /\ monitor_error' = None
    /\ mailbox_read' = NoRead
    /\ delay' = NoDelay
    /\ expired' = {}
    /\ UNCHANGED unitVars

\* app.py start_sending while the workers of this run are still alive: its
\* guard is sending_active alone, and it sets the flag the workers read
StartSending ==
    /\ ~sending_active
    /\ coord = "workers"
    /\ sending_active' = TRUE
    /\ UNCHANGED <<runVars, monVars, queueVars, fileVars, account_stats, history,
                   failed_accounts, pc, recipient, coord>>
    /\ UNCHANGED obsVars
    /\ monitor_error' = None
    /\ mailbox_read' = NoRead
    /\ delay' = NoDelay
    /\ expired' = {}
    /\ UNCHANGED unitVars

\* the process ends (process_csv returned, or it was killed while blocked in
\* join) and the sender is started again on the same recipient file
NextRun ==
    /\ coord \in {"join", "done"}
    /\ run < MaxRuns
    /\ run' = run + 1
    /\ history' = file_history
    /\ failed_accounts' = {}
    /\ last_bounce_check' = {}
    /\ emails_sent_since_check' = [a \in Accounts |-> 0]
    /\ queue' = Seed(csv, file_history, max_emails, test_mode)
    /\ unfinished_tasks' = Len(Seed(csv, file_history, max_emails, test_mode))
    /\ account_stats' = [a \in Accounts |-> [sent |-> 0, failed |-> 0]]
    /\ \E past \in SUBSET {a \in Accounts : cfg_disabled_until[a]} :
         LET act == ActiveAccounts(cfg_enabled, cfg_disabled_until, past)
         IN /\ expired' = past
            /\ cfg_disabled_until' =
                 [a \in Accounts |->
                    cfg_disabled_until[a]
                      /\ ~Reenabled(cfg_enabled[a], cfg_disabled_until[a], a \in past)]
            /\ active_accounts' = act
            /\ pc' = InitPc(act)
            /\ coord' = IF act = {} THEN "aborted" ELSE "workers"
    /\ recipient' = [a \in Accounts |-> None]
    /\ sending_active' = TRUE
    /\ sendsOK' = [r \in Addresses |-> 0]
    /\ last_outcome' = [a \in Accounts |-> None]
    /\ sentBefore' = sentBefore \cup {r \in Addresses : sendsOK[r] > 0}
    /\ stopRequested' = FALSE
    /\ sentAfterStop' = {}
    /\ skipped' = 0
    /\ monitor_error' = None
    /\ mailbox_read' = NoRead
    /\ delay' = NoDelay
    /\ UNCHANGED <<csv, max_emails, test_mode, max_parallel, file_history,
                   cfg_enabled, recordReturned>>
    /\ UNCHANGED unitVars

Worker(a) ==
    \/ WorkerStart(a)
    \/ WorkerIdle(a)
    \/ WorkerClaim(a)
    \/ WorkerTimedOut(a)
    \/ WorkerRecheck(a)
    \/ WorkerSend(a)
    \/ WorkerRecord(a)
    \/ WorkerSave(a)

\* one run started from the command line (no stop_check)
Next ==
    \/ \E a \in Accounts : Worker(a)
    \/ CoordWorkersDone
    \/ CoordJoin

Spec == InitSendable /\ [][Next]_vars

\* one run started from the web app, which can stop it
NextWeb ==
    \/ Next
    \/ StopSending
    \/ StartSending

SpecWeb == InitSendable /\ [][NextWeb]_vars

\* one run in which a worker thread can die of an unexpected exception
NextCrash ==
    \/ Next
    \/ \E a \in Accounts : WorkerCrash(a)

SpecCrash == InitSendable /\ [][NextCrash]_vars

\* runs from the command line, one after the other
NextRuns ==
    \/ Next
    \/ NextRun

SpecRuns == Init /\ [][NextRuns]_vars

\* one run started with any --max up to the length of the list, with or
\* without --test
InitBatch ==
    /\ \E m \in 0..MaxRows, t \in BOOLEAN : InitRun(m, t)
    /\ \A i \in 1..Len(csv) : ValidateEmail(csv[i]) /\ ~IsBlacklisted(csv[i])

SpecBatch == InitBatch /\ [][Next]_vars

\* one run whose worker threads all keep being scheduled
SpecLive == Spec /\ \A a \in Accounts : WF_vars(Worker(a))

\* ------------------------------------------------------------------------
\* EmailSender (send_emails_smtp.py): the same worker loop on app passwords
\* ------------------------------------------------------------------------

\* what one call of EmailSender.send_email can do up to the return of
\* server.send_message(msg)
\*   ok            the message is handed to the server
\*   rate_limit    an SMTPException or other error whose text names a limit
\*   password_file get_account_password raises ("Password file not found",
\*                 "No password file specified")
\*   credentials   an error, not an SMTPException, whose text names credentials
\*   login_failed  server.login raises SMTPAuthenticationError, an
\*                 SMTPException ("Username and Password not accepted")
\*   transient     any other SMTPException or exception
SmtpSendOutcomes == {"ok", "rate_limit", "password_file", "credentials",
                     "login_failed", "transient"}

\* EmailSender.send_email raises to the worker (after adding the account to
\* failed_accounts): the rate limit of either except block, and in the last
\* except block a text naming a password, a file or credentials; every other
\* SMTPException returns False
SmtpRaises(o) == o \in {"rate_limit", "password_file", "credentials"}

\* smtp worker: the else branch of "if is_rate_limit or "password" in ... or
\* "file" in ..."
SmtpPutsBack(o) == ~(o = "rate_limit" \/ o = "password_file")

\* top of the smtp worker loop: stop flag, daily limit, failed account (no
\* account_targets are set, no bounce check exists)
SmtpWorkerIdle(a) ==
    /\ pc[a] = "idle"
    /\ IF StopCheck \/ QuotaReached(a) \/ a \in failed_accounts
       THEN /\ PutBackHeld(a)
            /\ pc' = [pc EXCEPT ![a] = "stopped"]
       ELSE /\ UNCHANGED queueVars
            /\ pc' = [pc EXCEPT ![a] = "claim"]
    /\ UNCHANGED <<runVars, monVars, fileVars, account_stats, history,
                   failed_accounts, recipient, coord, sending_active>>
    /\ UNCHANGED obsVars
    /\ monitor_error' = None
    /\ mailbox_read' = NoRead
    /\ delay' = NoDelay
    /\ expired' = {}
    /\ UNCHANGED unitVars

\* the except block of the smtp worker
SmtpRaisedToWorker(a, o) ==
    /\ failed_accounts' = failed_accounts \cup {a}
    /\ account_stats' = [account_stats EXCEPT ![a].failed = @ + 1]
    /\ IF SmtpPutsBack(o)
       THEN /\ queue' = Append(queue, recipient[a])
            /\ unfinished_tasks' = unfinished_tasks + 1
       ELSE /\ queue' = queue
            /\ unfinished_tasks' = unfinished_tasks - 1
    /\ UNCHANGED recipient
    /\ pc' = [pc EXCEPT ![a] = "stopped"]

\* EmailSender.send_email up to the end of the "with smtplib.SMTP" block
SmtpWorkerSend(a) ==
    /\ pc[a] = "send"
    /\ \E o \in SmtpSendOutcomes :
         /\ last_outcome' = [last_outcome EXCEPT ![a] = o]
         /\ sendsOK' = IF o = "ok" THEN [sendsOK EXCEPT ![recipient[a]] = @ + 1]
                       ELSE sendsOK
         /\ IF o = "ok"
            THEN /\ pc' = [pc EXCEPT ![a] = "record"]
                 /\ UNCHANGED <<queueVars, account_stats, failed_accounts, recipient>>
            ELSE IF SmtpRaises(o)
            THEN SmtpRaisedToWorker(a, o)
            ELSE /\ ReturnedFalse(a)
                 /\ UNCHANGED failed_accounts
    /\ sentAfterStop' = IF stopRequested THEN sentAfterStop \cup {a}
                        ELSE sentAfterStop
    /\ UNCHANGED <<runVars, monVars, fileVars, history, coord, sending_active>>
    /\ UNCHANGED <<sentBefore, recordReturned, stopRequested, skipped>>
    /\ monitor_error' = None
    /\ mailbox_read' = NoRead
    /\ delay' = NoDelay
    /\ expired' = {}
    /\ UNCHANGED unitVars

\* the rest of EmailSender.send_email: record_sent_email, return True
SmtpWorkerRecord(a) ==
    /\ pc[a] = "record"
    /\ history' = RecordSentEmail(history, recipient[a], a)
    /\ recordReturned' = recordReturned \cup {recipient[a]}
    /\ pc' = [pc EXCEPT ![a] = "save"]
    /\ UNCHANGED <<runVars, monVars, queueVars, fileVars, account_stats,
                   failed_accounts, recipient, coord, sending_active>>
    /\ UNCHANGED <<sendsOK, last_outcome, sentBefore, stopRequested, sentAfterStop,
                   skipped>>
    /\ monitor_error' = None
    /\ mailbox_read' = NoRead
    /\ delay' = NoDelay
    /\ expired' = {}
    /\ UNCHANGED unitVars

SmtpWorker(a) ==
    \/ WorkerStart(a)
    \/ SmtpWorkerIdle(a)
    \/ WorkerClaim(a)
    \/ WorkerTimedOut(a)
    \/ WorkerRecheck(a)
    \/ SmtpWorkerSend(a)
    \/ SmtpWorkerRecord(a)
    \/ WorkerSave(a)

\* one run of EmailSender.process_csv started from the command line
NextSmtp ==
    \/ \E a \in Accounts : SmtpWorker(a)
    \/ CoordWorkersDone
    \/ CoordJoin

SpecSmtp == InitSendable /\ [][NextSmtp]_vars

\* ------------------------------------------------------------------------
\* The config file under concurrent calls
\* ------------------------------------------------------------------------

\* a sender between two loop turns of its workers, with nothing queued: the
\* part of the state that a call on the config file or a bounce check neither
\* reads nor writes
QuietSender ==
    /\ run = 1
    /\ csv = [i \in 1..MaxRows |-> "r1"]
    /\ max_emails = 0
    /\ test_mode = FALSE
    /\ file_history = StartHistory([a \in Accounts |-> 0])
    /\ history = file_history
    /\ queue = <<>>
    /\ unfinished_tasks = 0
    /\ account_stats = [a \in Accounts |-> [sent |-> 0, failed |-> 0]]
    /\ active_accounts = {}
    /\ max_parallel = 1
    /\ pc = InitPc({})
    /\ recipient = [a \in Accounts |-> None]
    /\ coord = "workers"
    /\ sending_active = TRUE
    /\ sendsOK = [r \in Addresses |-> 0]
    /\ last_outcome = [a \in Accounts |-> None]
    /\ sentBefore = {}
    /\ recordReturned = {}
    /\ stopRequested = FALSE
    /\ sentAfterStop = {}
    /\ skipped = 0
    /\ monitor_error = None
    /\ mailbox_read = NoRead
    /\ delay = NoDelay
    /\ expired = {}

\* what json.load(f) of the config file returns
ConfigFile == [enabled |-> cfg_enabled, disabled_until |-> cfg_disabled_until]

\* disable_account_for_24h(a), or the "Save config" block of
\* is_account_disabled for account a
CallOps == [kind : {"disable", "reenable"}, account : Accounts]

\* a loop that flips 'enabled' where the code sets it
MarkDisabledToggle(c, a) ==
    [enabled        |-> [c.enabled EXCEPT ![a] = ~c.enabled[a]],
     disabled_until |-> [c.disabled_until EXCEPT ![a] = TRUE]]

\* disable_account_for_24h: the loop over the accounts of the loaded config
MarkDisabled(c, a) ==
    [enabled        |-> [c.enabled EXCEPT ![a] = FALSE],
     disabled_until |-> [c.disabled_until EXCEPT ![a] = TRUE]]

\* is_account_disabled: the loop over the accounts of the loaded config
MarkEnabled(c, a) ==
    [enabled        |-> [c.enabled EXCEPT ![a] = TRUE],
     disabled_until |-> [c.disabled_until EXCEPT ![a] = FALSE]]

\* two calls about to open the config file; neither function takes a lock.
\* is_account_disabled comes to its block only for an account that its sender
\* loaded as enabled with a disabled_until
InitDisable ==
    /\ QuietSender
    /\ cfg_enabled \in [Accounts -> BOOLEAN]
    /\ cfg_disabled_until \in [Accounts -> BOOLEAN]
    /\ failed_accounts = {}
    /\ last_bounce_check = {}
    /\ emails_sent_since_check = [a \in Accounts |-> 0]
    /\ call_op \in [Callers -> CallOps]
    /\ \A t \in Callers :
         call_op[t].kind = "reenable"
             => /\ cfg_enabled[call_op[t].account]
                /\ cfg_disabled_until[call_op[t].account]
    /\ call_pc = [t \in Callers |-> "read"]
    /\ call_cfg = [t \in Callers |-> None]
    /\ mon_clock = [a \in Accounts |-> 0]
    /\ mon_sends = [a \in Accounts |-> 0]
    /\ mon_call = NoMonCall
    /\ messages = <<>>
    /\ signal = NotRun
    /\ NoThreads

\* "with open(config_path, 'r') as f: config = json.load(f)"; when it raises
\* the except block ends the call and nothing is written
CallRead(t) ==
    /\ call_pc[t] = "read"
    /\ \E ok \in BOOLEAN :
         IF ok
         THEN /\ call_cfg' = [call_cfg EXCEPT ![t] = ConfigFile]
              /\ call_pc' = [call_pc EXCEPT ![t] = "write"]
         ELSE /\ call_cfg' = call_cfg
              /\ call_pc' = [call_pc EXCEPT ![t] = "failed"]
    /\ UNCHANGED <<progVars, obsVars, monitor_error, mailbox_read, delay,
                   expired, call_op,
                   monCallVars, classifyVars, appVars>>

\* the loop over the accounts of the loaded config, then
\* "with open(config_path, 'w') as f: json.dump(config, f, indent=2)"
CallWrite(t) ==
    /\ call_pc[t] = "write"
    /\ LET a == call_op[t].account
           c == IF call_op[t].kind = "disable"
                THEN MarkDisabled(call_cfg[t], a)
                ELSE MarkEnabled(call_cfg[t], a)
       IN /\ cfg_enabled' = c.enabled
          /\ cfg_disabled_until' = c.disabled_until
    /\ call_pc' = [call_pc EXCEPT ![t] = "done"]
    /\ UNCHANGED <<run, csv, max_emails, test_mode, file_history, history, failed_accounts, monVars,
                   queueVars, account_stats, active_accounts, max_parallel,
                   pc, recipient, coord, sending_active>>
    /\ UNCHANGED <<obsVars, monitor_error, mailbox_read, delay,
                   expired, call_op, call_cfg,
                   monCallVars, classifyVars, appVars>>

NextDisable == \E t \in Callers : CallRead(t) \/ CallWrite(t)

SpecDisable == InitDisable /\ [][NextDisable]_vars

\* ------------------------------------------------------------------------
\* The cadence of the bounce check
\* ------------------------------------------------------------------------

\* the values of current_time - last_bounce_check[a] the cadence tells apart
ClockValues == {0, BounceCheckSeconds - 1, BounceCheckSeconds,
                BounceCheckSeconds + 1}

\* the workers of a sender whose accounts are enabled and not failed, before
\* their first bounce check
InitMonitor ==
    /\ QuietSender
    /\ cfg_enabled = [a \in Accounts |-> TRUE]
    /\ cfg_disabled_until = [a \in Accounts |-> FALSE]
    /\ failed_accounts = {}
    /\ last_bounce_check = {}
    /\ emails_sent_since_check = [a \in Accounts |-> 0]
    /\ call_op = [t \in Callers |-> NoCall]
    /\ call_pc = [t \in Callers |-> None]
    /\ call_cfg = [t \in Callers |-> None]
    /\ mon_clock = [a \in Accounts |-> 0]
    /\ mon_sends = [a \in Accounts |-> 0]
    /\ mon_call = NoMonCall
    /\ messages = <<>>
    /\ signal = NotRun
    /\ NoThreads

\* time passes between two calls (the delay, the send, the wait on the queue)
MonTick(a) ==
    /\ \E c \in ClockValues :
         /\ c > mon_clock[a]
         /\ mon_clock' = [mon_clock EXCEPT ![a] = c]
    /\ mon_call' = NoMonCall
    /\ UNCHANGED <<progVars, obsVars, monitor_error, mailbox_read, delay,
                   expired, callVars,
                   mon_sends, classifyVars, appVars>>

\* check_rate_limit_bounce(account, service, force_check=False) when the
\* counters are cnt and sends mails were sent since the last performed check;
\* a performed check sets last_bounce_check[a] to current_time
MonCheck(a, cnt, sends) ==
    \E mailbox \in Mailbox, persisted \in BOOLEAN :
        LET queried == ShouldCheck(a, FALSE, mon_clock[a], cnt)
        IN /\ CheckRateLimitBounce(a, FALSE, mon_clock[a], cnt, mailbox, persisted)
           /\ mon_clock' = IF queried THEN [mon_clock EXCEPT ![a] = 0]
                           ELSE mon_clock
           /\ mon_sends' = [mon_sends EXCEPT ![a] = IF queried THEN 0 ELSE sends]
           /\ mon_call' = [account |-> a,
                           first   |-> a \notin last_bounce_check,
                           elapsed |-> mon_clock[a],
                           cnt     |-> cnt[a],
                           sends   |-> sends,
                           queried |-> queried]

\* the periodic check at the top of the worker loop
MonIdleCheck(a) ==
    /\ a \notin failed_accounts
    /\ MonCheck(a, emails_sent_since_check, mon_sends[a])
    /\ UNCHANGED <<run, csv, max_emails, test_mode, file_history, history, queueVars, account_stats,
                   active_accounts, max_parallel, pc, recipient, coord,
                   sending_active>>
    /\ UNCHANGED <<obsVars, monitor_error, mailbox_read, delay,
                   expired, callVars,
                   classifyVars, appVars>>

\* the end of send_email after a successful send: the counter, then the check
MonSendCheck(a) ==
    /\ a \notin failed_accounts
    /\ emails_sent_since_check[a] <= BounceCheckEmails
    /\ MonCheck(a, [emails_sent_since_check EXCEPT ![a] = @ + 1],
                mon_sends[a] + 1)
    /\ UNCHANGED <<run, csv, max_emails, test_mode, file_history, history, queueVars, account_stats,
                   active_accounts, max_parallel, pc, recipient, coord,
                   sending_active>>
    /\ UNCHANGED <<obsVars, monitor_error, mailbox_read, delay,
                   expired, callVars,
                   classifyVars, appVars>>

NextMonitor ==
    \E a \in Accounts : MonTick(a) \/ MonIdleCheck(a) \/ MonSendCheck(a)

SpecMonitor == InitMonitor /\ [][NextMonitor]_vars

\* ------------------------------------------------------------------------
\* The classification of the messages of one mailbox query
\* ------------------------------------------------------------------------

\* what the text of a bounce message can be about: a phrase of
\* rate_limit_phrases, a phrase of blocked_phrases, or an unknown mailbox
\* ("address not found"), for which the code has no phrases
TextKinds == {"rate_limit", "blocked", "invalid_mailbox"}

\* a message of the list: whether messages().get() and the reading of its
\* payload succeed, and what its combined_text is about
Messages == [readable : BOOLEAN, text : SUBSET TextKinds]

\* a test that takes only the rate-limit phrases for a signal
IsPositiveRateLimitOnly(m) == "rate_limit" \in m.text

\* "if is_rate_limit or is_blocked"
IsPositive(m) == "rate_limit" \in m.text \/ "blocked" \in m.text

\* the loop "for msg in messages" from message i on: the message is fetched; if
\* that raises it is skipped; at the first message with a phrase of either list
\* both findings are printed, the account is disabled and True is returned.
\*   ran        the loop has run
\*   detected   the return value
\*   examined   the messages fetched
\*   announced  the "... DETECTED" lines printed
RECURSIVE CheckMessages(_, _)
CheckMessages(msgs, i) ==
    IF i > Len(msgs)
    THEN [ran |-> TRUE, detected |-> FALSE, examined |-> Len(msgs),
          announced |-> {}]
    ELSE IF msgs[i].readable /\ IsPositive(msgs[i])
    THEN [ran       |-> TRUE,
          detected  |-> TRUE,
          examined  |-> i,
          announced |-> msgs[i].text \cap {"rate_limit", "blocked"}]
    ELSE CheckMessages(msgs, i + 1)

\* the mailbox query has returned its list
InitClassify ==
    /\ QuietSender
    /\ cfg_enabled = [a \in Accounts |-> TRUE]
    /\ cfg_disabled_until = [a \in Accounts |-> FALSE]
    /\ failed_accounts = {}
    /\ last_bounce_check = {}
    /\ emails_sent_since_check = [a \in Accounts |-> 0]
    /\ call_op = [t \in Callers |-> NoCall]
    /\ call_pc = [t \in Callers |-> None]
    /\ call_cfg = [t \in Callers |-> None]
    /\ mon_clock = [a \in Accounts |-> 0]
    /\ mon_sends = [a \in Accounts |-> 0]
    /\ mon_call = NoMonCall
    /\ \E n \in 0..MaxMessages : messages \in [1..n -> Messages]
    /\ signal = NotRun
    /\ NoThreads

\* "if not messages: return False", else the loop
Classify ==
    /\ signal = NotRun
    /\ signal' = CheckMessages(messages, 1)
    /\ UNCHANGED <<progVars, obsVars, monitor_error, mailbox_read, delay,
                   expired, callVars,
                   monCallVars, messages, appVars>>

NextClassify == Classify

SpecClassify == InitClassify /\ [][NextClassify]_vars

\* ------------------------------------------------------------------------
\* The web app: start and stop requests and the sending threads
\* ------------------------------------------------------------------------

\* everything of a sender but the flag of the web app
senderVars == <<run, csv, max_emails, test_mode, file_history, cfg_enabled, cfg_disabled_until,
                history, failed_accounts, last_bounce_check,
                emails_sent_since_check, queue, unfinished_tasks,
                account_stats, active_accounts, max_parallel, pc, recipient,
                coord>>

\* the web app after its start: sending_active = False, sending_thread = None
InitApp ==
    /\ run = 1
    /\ csv = [i \in 1..MaxRows |-> "r1"]
    /\ max_emails = 0
    /\ test_mode = FALSE
    /\ file_history = StartHistory([a \in Accounts |-> 0])
    /\ cfg_enabled = [a \in Accounts |-> TRUE]
    /\ cfg_disabled_until = [a \in Accounts |-> FALSE]
    /\ history = file_history
    /\ failed_accounts = {}
    /\ last_bounce_check = {}
    /\ emails_sent_since_check = [a \in Accounts |-> 0]
    /\ queue = <<>>
    /\ unfinished_tasks = 0
    /\ account_stats = [a \in Accounts |-> [sent |-> 0, failed |-> 0]]
    /\ active_accounts = {}
    /\ max_parallel = 1
    /\ pc = InitPc({})
    /\ recipient = [a \in Accounts |-> None]
    /\ coord = "workers"
    /\ sending_active = FALSE
    /\ sendsOK = [r \in Addresses |-> 0]
    /\ last_outcome = [a \in Accounts |-> None]
    /\ sentBefore = {}
    /\ recordReturned = {}
    /\ stopRequested = FALSE
    /\ sentAfterStop = {}
    /\ skipped = 0
    /\ monitor_error = None
    /\ mailbox_read = NoRead
    /\ delay = NoDelay
    /\ expired = {}
    /\ call_op = [t \in Callers |-> NoCall]
    /\ call_pc = [t \in Callers |-> None]
    /\ call_cfg = [t \in Callers |-> None]
    /\ mon_clock = [a \in Accounts |-> 0]
    /\ mon_sends = [a \in Accounts |-> 0]
    /\ mon_call = NoMonCall
    /\ messages = <<>>
    /\ signal = NotRun
    /\ NoThreads

AppFrame ==
    /\ UNCHANGED <<senderVars, obsVars, monitor_error, mailbox_read, delay,
                   expired, callVars, monCallVars, classifyVars>>

\* a start request is refused while the flag is set
StartRefused == sending_active

\* start_sending: refused with 400 when StartRefused; else the flag is set
\* and a new thread runs send_emails_worker_direct
StartRequest ==
    /\ ~StartRefused
    /\ \E t \in Threads :
         /\ thread_pc[t] = "new"
         /\ \A u \in Threads : u < t => thread_pc[u] # "new"
         /\ thread_pc' = [thread_pc EXCEPT ![t] = "setup"]
         /\ sending_thread' = t
    /\ sending_active' = TRUE
    /\ UNCHANGED thread_left
    /\ AppFrame

\* stop_sending: the flag is cleared, the request returns at once
StopRequest ==
    /\ sending_active' = FALSE
    /\ UNCHANGED <<sending_thread, thread_pc, thread_left>>
    /\ AppFrame

\* send_emails_worker_direct up to the worker threads of process_csv: the
\* sender is made (it loads the history and makes its locks), the stop check is
\* set, process_csv queues n recipients; or one of these raises
ThreadSetup(t) ==
    /\ thread_pc[t] = "setup"
    /\ \/ \E n \in 0..MaxRows :
            /\ thread_left' = [thread_left EXCEPT ![t] = n]
            /\ thread_pc' = [thread_pc EXCEPT ![t] = "sending"]
       \/ /\ thread_left' = thread_left
          /\ thread_pc' = [thread_pc EXCEPT ![t] = "finally"]
    /\ UNCHANGED <<sending_active, sending_thread>>
    /\ AppFrame

\* one turn of the worker loops of the thread's process_csv: they leave when
\* should_stop() answers True or the queue is empty, else a recipient is
\* served
ThreadTurn(t) ==
    /\ thread_pc[t] = "sending"
    /\ IF ~sending_active \/ thread_left[t] = 0
       THEN /\ thread_pc' = [thread_pc EXCEPT ![t] = "finally"]
            /\ thread_left' = thread_left
       ELSE /\ thread_pc' = thread_pc
            /\ thread_left' = [thread_left EXCEPT ![t] = @ - 1]
    /\ UNCHANGED <<sending_active, sending_thread>>
    /\ AppFrame

\* the finally block of send_emails_worker_direct, then the thread ends
ThreadFinally(t) ==
    /\ thread_pc[t] = "finally"
    /\ sending_active' = FALSE
    /\ thread_pc' = [thread_pc EXCEPT ![t] = "ended"]
    /\ UNCHANGED <<sending_thread, thread_left>>
    /\ AppFrame

NextApp ==
    \/ StartRequest
    \/ StopRequest
    \/ \E t \in Threads : ThreadSetup(t) \/ ThreadTurn(t) \/ ThreadFinally(t)

SpecApp == InitApp /\ [][NextApp]_vars

\* ------------------------------------------------------------------------
\* Properties
\* ------------------------------------------------------------------------

\* worker a makes its Transport.Send call in this step
SendStep(a) == pc[a] = "send" /\ pc'[a] # "send"

\* a holds an in-flight claim: its double-check found the address unsent and
\* its record_sent_email has not run yet
InFlight(a) == pc[a] \in {"send", "record"}

InQueue(r) == \E i \in 1..Len(queue) : queue[i] = r

\* C1: in one run at most one Transport.Send succeeds for every address that
\* is not on the test whitelist
AtMostOneSendPerRecipient ==
    \A r \in Addresses \ test_whitelist : sendsOK[r] <= 1

\* C2: at every instant at most one worker holds an in-flight claim on a
\* given (not whitelisted) address
AtMostOneInFlightClaim ==
    \A a, b \in Accounts :
        (a # b /\ InFlight(a) /\ InFlight(b) /\ recipient[a] \notin test_whitelist)
            => recipient[a] # recipient[b]

\* C3: the counter of today of every account, in memory and in the history
\* file, never exceeds the account's daily limit
QuotaInvariant ==
    \A a \in Accounts :
        /\ history.daily[a] <= daily_limit(a)
        /\ file_history.daily[a] <= daily_limit(a)

\* C3 witness: an account has sent in this run up to its limit and stopped
QuotaWitness ==
    \E a \in Accounts :
        /\ account_stats[a].sent > 0
        /\ history.daily[a] = daily_limit(a)
        /\ pc[a] = "stopped"

\* C4: in a later run no Transport.Send succeeds for a (not whitelisted)
\* recipient whose send succeeded in an earlier run
NoResendOfSucceeded ==
    \A r \in sentBefore \ test_whitelist : sendsOK[r] = 0

\* C5: once record_sent_email has returned for an address and the worker is
\* done with that send, the history file holds the address
RecordedSendsArePersisted ==
    \A r \in recordReturned :
        (\A a \in Accounts : ~(pc[a] = "save" /\ recipient[a] = r))
            => file_history.recipients[r] > 0

\* C6: after Transport.Send reported an account-fatal error for an account,
\* that account makes no further Transport.Send call in the run
NoSendAfterAccountFatal ==
    [][\A a \in Accounts : Raises(last_outcome[a]) => ~SendStep(a)]_vars

\* C6 witness: an account was stopped by an account-fatal error of its second
\* send while recipients are still queued
AccountFatalWitness ==
    \E a \in Accounts :
        /\ Raises(last_outcome[a])
        /\ pc[a] = "stopped"
        /\ account_stats[a].sent > 0
        /\ queue # <<>>

RunReturnsOnceWorkersStopped ==
    coord = "join" => unfinished_tasks = 0

\* C10: after stop_sending a worker makes at most one further Transport.Send
\* call
AtMostOneSendAfterStop ==
    [][\A a \in Accounts : a \in sentAfterStop => ~SendStep(a)]_vars

\* the rows of the recipient file are pairwise distinct addresses, all well
\* formed and none blacklisted
RowsDistinct ==
    /\ \A i, j \in 1..Len(csv) : i # j => csv[i] # csv[j]
    /\ \A i \in 1..Len(csv) : ValidateEmail(csv[i]) /\ ~IsBlacklisted(csv[i])

\* today's counter of an account when the run started (read when the account
\* has no send between record_sent_email and the count of the send)
sent_today_at_start(a) == history.daily[a] - account_stats[a].sent

\* what the accounts together could still send today when the run started
RemainingAtStart ==
    SumDaily([a \in Accounts |-> daily_limit(a) - sent_today_at_start(a)], Accounts)

\* the transport has succeeded on every call so far and no bounce check has
\* fired: no send counted failed, no account marked failed
NothingFailed == failed_count = 0 /\ failed_accounts = {}

\* C11: distinct recipients, accounts that together have quota left for all
\* of them though not each alone, a transport that always succeeds: once the
\* workers have returned every recipient has been sent to once and is recorded
\* (in memory and in the file), no account is over its limit, every send is
\* counted, and join() has nothing left to wait for, so the run returns
ScenarioAllSent ==
    (AllStopped /\ RowsDistinct /\ NothingFailed /\ Len(csv) <= RemainingAtStart)
        => /\ \A i \in 1..Len(csv) :
                /\ sendsOK[csv[i]] = 1
                /\ history.recipients[csv[i]] = 1
                /\ file_history.recipients[csv[i]] = 1
           /\ \A a \in Accounts : history.daily[a] <= daily_limit(a)
           /\ sent_count = Len(csv)
           /\ queue = <<>>
           /\ unfinished_tasks = 0

\* C11 witness: the run has returned with every recipient sent; one account
\* stopped at its limit and the other account sent the rest
ScenarioAllSentWitness ==
    /\ coord = "done"
    /\ RowsDistinct /\ NothingFailed
    /\ Len(csv) = MaxRows
    /\ sent_count = Len(csv)
    /\ \E a, b \in Accounts :
         /\ a # b
         /\ account_stats[a].sent > 0 /\ history.daily[a] = daily_limit(a)
         /\ account_stats[b].sent > 0

\* the first Transport.Send call of account a ended with an account-fatal error
FirstCallFatal(a) ==
    /\ Raises(last_outcome[a])
    /\ account_stats[a].sent = 0
    /\ account_stats[a].failed = 1

\* account b had no failure and had quota for every recipient of the list
HealthyWithQuota(b) ==
    /\ b \notin failed_accounts
    /\ account_stats[b].failed = 0
    /\ daily_limit(b) - sent_today_at_start(b) >= Len(csv)

LedgerCountsEverySuccess ==
    \A r \in Addresses :
        history.recipients[r]
            + Cardinality({a \in Accounts : pc[a] = "record" /\ recipient[a] = r})
          = sendsOK[r]

\* C13 witness: two workers raced on duplicate rows of one address, both sends
\* succeeded and its send_count is 2
LedgerRaceWitness ==
    \E r \in Addresses, a, b \in Accounts :
        /\ AllStopped /\ a # b
        /\ account_stats[a].sent > 0 /\ account_stats[b].sent > 0
        /\ sendsOK[r] = 2
        /\ history.recipients[r] = 2

MonitorFailureIsNoSignal ==
    [][\A a \in Accounts :
         monitor_error' = a
             => /\ failed_accounts' = failed_accounts
                /\ cfg_enabled' = cfg_enabled
                /\ account_stats' = account_stats
                /\ queue' = queue
                /\ pc[a] = "idle" => pc'[a] = "claim"
                /\ pc[a] = "record" => pc'[a] = "save"
                /\ pc[a] \in {"idle", "record"}]_vars

\* C15 witness: the check after a send could not read the mailbox and the
\* send is about to be counted as sent
MonitorFailureWitness ==
    \E a \in Accounts :
        /\ monitor_error = a
        /\ pc[a] = "save"
        /\ a \notin failed_accounts
        /\ cfg_enabled[a]

\* r equals an entry of the blacklist up to the case of its letters
OnBlacklistAnyCase(r) == \E e \in blacklist : Lower(e) = Lower(r)

\* r is in the queue or in the hands of a worker
QueuedOrHeld(r) == InQueue(r) \/ \E a \in Accounts : recipient[a] = r

\* C16: an address that is malformed or blacklisted is never in the queue nor
\* in the hands of a worker, and no send to it succeeds; when a run starts no
\* address the loaded history has as sent (and the whitelist does not name)
\* is in the queue; during a run nothing enters the queue but a recipient a
\* worker holds
PreQueueFilter ==
    /\ [](\A r \in Addresses :
            (r \in malformed \/ OnBlacklistAnyCase(r))
                => ~QueuedOrHeld(r) /\ sendsOK[r] = 0)
    /\ [][run' # run
            => \A r \in Addresses :
                 InQueue(r)' => ~IsAlreadySentIn(file_history, r)]_vars
    /\ [][run' = run
            => \A r \in Addresses : InQueue(r)' => QueuedOrHeld(r)]_vars

\* C16 witness: a second run on a list with a blacklisted or malformed row
\* and a row the first run sent to has returned without sending anything
PreQueueFilterWitness ==
    \E i, j \in 1..Len(csv) :
        /\ run = 2 /\ coord = "done"
        /\ csv[i] \in malformed \/ OnBlacklistAnyCase(csv[i])
        /\ csv[j] \in sentBefore \ test_whitelist
        /\ \A r \in Addresses : sendsOK[r] = 0

\* C17: once the workers of a run have returned, a recipient that is still in
\* the queue and was never handed to send_email (so the run printed and
\* counted no failure for it) has a success record in the history
NoSilentDrop ==
    coord # "workers"
        => \A r \in Addresses :
             (InQueue(r) /\ \A a \in Accounts : recipient[a] # r)
                 => history.recipients[r] > 0

\* C20: an account that was retired in a run because Transport.Send answered
\* with a rate-limit response or a credentials or auth error is written to the
\* config file as disabled, so that a restarted run gives it no worker
RetiredAccountStaysOut ==
    [][run' # run
         => \A a \in failed_accounts :
              Raises(last_outcome[a]) => pc'[a] = None]_vars

\* C18: a step of one account's worker, an account-fatal error or the death
\* of the thread included, leaves every other worker where it is and every
\* other account unfailed and enabled, and process_csv leaves the executor
\* only when every worker has ended
FailureIsolation ==
    [][/\ \A a, b \in Accounts :
            (a # b /\ pc'[a] # pc[a])
                => /\ pc'[b] = pc[b]
                   /\ (b \in failed_accounts') = (b \in failed_accounts)
                   /\ cfg_enabled'[b] = cfg_enabled[b]
       /\ (coord = "workers" /\ coord' # "workers")
            => \A a \in active_accounts : pc[a] = "stopped"]_vars

\* C18 witness: one worker has died holding a recipient, the worker of the
\* other account, neither failed nor disabled, is sending
FailureIsolationWitness ==
    \E a, b \in Accounts :
        /\ a # b
        /\ pc[a] = "stopped" /\ recipient[a] # None /\ ~Raises(last_outcome[a])
        /\ pc[b] = "send"
        /\ b \notin failed_accounts /\ cfg_enabled[b]
        /\ coord = "workers"

\* C19: every successful send of a worker (a send it counts as sent) is
\* followed, before the worker's next loop turn, by a sleep of d seconds with
\* delay_min_seconds <= d <= delay_max_seconds; so no two successful sends of
\* a worker are without a cooldown between them
CooldownAfterEverySuccess ==
    [][\A a \in Accounts :
         account_stats'[a].sent > account_stats[a].sent
             => /\ delay_min_seconds <= delay'[a]
                /\ delay'[a] <= delay_max_seconds]_vars

\* C19 witness: a worker has just ended the turn of its second successful
\* send with the longest sleep
CooldownWitness ==
    \E a \in Accounts :
        /\ account_stats[a].sent = 2
        /\ delay[a] = delay_max_seconds
        /\ pc[a] = "idle"

\* C21: when a run starts after the disabled_until of an account that
\* disable_account_for_24h disabled (enabled false, disabled_until set) has
\* elapsed, the account is treated as enabled again: it is given a worker and
\* the config file has it enabled with no disabled_until
LazyReenable ==
    [][run' # run
         => \A a \in Accounts :
              (~cfg_enabled[a] /\ cfg_disabled_until[a] /\ a \in expired')
                  => /\ pc'[a] # None
                     /\ cfg_enabled'[a]
                     /\ ~cfg_disabled_until'[a]]_vars

\* both callers call disable_account_for_24h for account a
BothDisable(a) ==
    \A t \in Callers : call_op[t] = [kind |-> "disable", account |-> a]

\* every call has ended, and t's call has written the file
CallsEnded == \A t \in Callers : call_pc[t] \in {"done", "failed"}
Wrote(t) == call_pc[t] = "done"

\* C22: two calls disable the same account, their reads and writes of the
\* config file interleaved in any order: once both have ended (and one of them
\* could read the file), the file has the account with enabled false and a
\* disabled_until, and the entries of the other accounts as they were
DisableIdempotent ==
    \A a \in Accounts :
        (BothDisable(a) /\ CallsEnded /\ \E t \in Callers : Wrote(t))
            => /\ ~cfg_enabled[a]
               /\ cfg_disabled_until[a]
               /\ \A t \in Callers, b \in Accounts \ {a} :
                    Wrote(t) => /\ cfg_enabled[b] = call_cfg[t].enabled[b]
                                /\ cfg_disabled_until[b] = call_cfg[t].disabled_until[b]

\* C22 witness: both calls loaded the file with the account still enabled,
\* then both wrote
DisableIdempotentWitness ==
    \E a \in Accounts :
        /\ BothDisable(a)
        /\ \A t \in Callers : Wrote(t) /\ call_cfg[t].enabled[a]
        /\ ~cfg_enabled[a]

\* C23: two calls on two different accounts, each loading the config file,
\* changing its own account and writing the whole file back: once both have
\* written, the file has the change of each; a disable is not undone by the
\* write of the other disable or of a re-enable, and a re-enable is not undone
\* by the write of a disable
ConcurrentWritesKeepBoth ==
    (\A t \in Callers : Wrote(t))
        => \A t \in Callers :
             (\A u \in Callers \ {t} : call_op[u].account # call_op[t].account)
                 => IF call_op[t].kind = "disable"
                    THEN /\ ~cfg_enabled[call_op[t].account]
                         /\ cfg_disabled_until[call_op[t].account]
                    ELSE /\ cfg_enabled[call_op[t].account]
                         /\ ~cfg_disabled_until[call_op[t].account]

\* C24: in every state that a thread not holding history_lock can see, today's
\* total is the sum of today's counters of the accounts (in memory and in the
\* file); and a step changes the history only by one record_sent_email, which
\* adds one to the send_count of its recipient, one to the counter of its
\* account and one to the total, all three in that step: so the total is the
\* total at the start plus the number of record_sent_email calls made
TotalsMoveTogether ==
    /\ [](/\ history.total = SumDaily(history.daily, Accounts)
          /\ file_history.total = SumDaily(file_history.daily, Accounts))
    /\ [][\/ history' = history
          \/ \E a \in Accounts :
               /\ pc[a] = "record"
               /\ history'.recipients =
                    [history.recipients EXCEPT ![Lower(recipient[a])] = @ + 1]
               /\ history'.daily = [history.daily EXCEPT ![a] = @ + 1]
               /\ history'.total = history.total + 1]_vars

\* C24 witness: mail was sent earlier today, both accounts have recorded a
\* send in this run, and the total is the earlier total plus the two calls
TotalsWitness ==
    \E a, b \in Accounts :
        /\ a # b
        /\ account_stats[a].sent > 0 /\ account_stats[b].sent > 0
        /\ SumDaily(history.recipients, Addresses) = 2
        /\ history.total > 2
        /\ history.total = history.daily[a] + history.daily[b]

\* C25: the history (recipient entries and daily counters) changes only in the
\* step of a worker whose Transport.Send call just before, for the recipient
\* it still holds, succeeded, and the change is the record of that recipient
\* on that account; a Transport.Send call that fails changes neither the
\* history nor the history file
RecordOnlyAfterSuccess ==
    /\ [][history' # history
            => \E a \in Accounts :
                 /\ pc[a] = "record" /\ pc'[a] # "record"
                 /\ last_outcome[a] = "ok"
                 /\ sendsOK[recipient[a]] > history.recipients[Lower(recipient[a])]
                 /\ history'.recipients =
                      [history.recipients EXCEPT ![Lower(recipient[a])] = @ + 1]
                 /\ history'.daily = [history.daily EXCEPT ![a] = @ + 1]]_vars
    /\ [][\A a \in Accounts :
            (SendStep(a) /\ last_outcome'[a] # "ok")
                => /\ history' = history
                   /\ file_history' = file_history
                   /\ pc'[a] # "record"]_vars
    /\ [][\A a \in Accounts :
            (pc'[a] = "record" /\ pc[a] # "record")
                => SendStep(a) /\ last_outcome'[a] = "ok"]_vars

\* C25 witness: the first call of an account failed and left no record, its
\* second call succeeded and is the only record
RecordOnlyAfterSuccessWitness ==
    \E a \in Accounts :
        /\ account_stats[a].failed = 1 /\ account_stats[a].sent = 1
        /\ last_outcome[a] = "ok"
        /\ SumDaily(history.recipients, Addresses) = 1
        /\ history.daily[a] = sent_today_at_start(a) + 1
        /\ \A b \in Accounts \ {a} : pc[b] = "pending"

\* the worker skips the recipient it holds: no Transport.Send call, nothing
\* counted, no account marked failed or disabled, the queue task marked done,
\* and the worker back at the top of its loop
SkipsHeld(a) ==
    /\ pc'[a] = "idle"
    /\ recipient'[a] = None
    /\ sendsOK' = sendsOK /\ last_outcome' = last_outcome
    /\ account_stats' = account_stats
    /\ failed_accounts' = failed_accounts
    /\ cfg_enabled' = cfg_enabled
    /\ queue' = queue
    /\ unfinished_tasks' = unfinished_tasks - 1

\* r equals an entry of the test whitelist up to the case of its letters
OnWhitelistAnyCase(r) == \E e \in test_whitelist : Lower(e) = Lower(r)

\* C26 as stated: a worker whose double-check finds the address of its
\* recipient in the history skips it
RecheckSkipsRecorded ==
    [][\A a \in Accounts :
         (pc[a] = "recheck" /\ pc'[a] # "recheck"
            /\ history.recipients[Lower(recipient[a])] > 0)
             => SkipsHeld(a)]_vars

\* C26 amended: a worker whose double-check finds the address of its
\* recipient in the history, the address not being on the test whitelist,
\* skips it; for an address on the test whitelist the double-check answers
\* "not sent" and the worker goes on to send
RecheckSkipsRecordedUnlessWhitelisted ==
    [][\A a \in Accounts :
         (pc[a] = "recheck" /\ pc'[a] # "recheck"
            /\ history.recipients[Lower(recipient[a])] > 0)
             => IF OnWhitelistAnyCase(recipient[a])
                THEN pc'[a] = "send" /\ recipient'[a] = recipient[a]
                ELSE SkipsHeld(a)]_vars

\* C26 witness: two rows with one address; a has sent and recorded the first
\* and still holds it, b took the second and marked it done without a send
RecheckSkipWitness ==
    \E a, b \in Accounts :
        /\ a # b
        /\ Len(csv) = 2 /\ csv[1] = csv[2] /\ ~OnWhitelistAnyCase(csv[1])
        /\ pc[a] = "save" /\ recipient[a] = csv[1]
        /\ pc[b] = "idle" /\ recipient[b] = None /\ last_outcome[b] = None
        /\ queue = <<>> /\ unfinished_tasks = 1
        /\ failed_count = 0 /\ failed_accounts = {}

\* C27: a call of the bounce check that is not forced queries the mailbox if
\* and only if it is the first for its account, or BounceCheckSeconds have
\* passed since the last performed check, or BounceCheckEmails sends have been
\* counted since; a performed check sets the time since the last check and the
\* counter of sends to 0, a call that does not query leaves the time of the
\* last check alone; so a check is performed at the latest after the
\* BounceCheckEmails-th send since the one before
MonitorCadence ==
    /\ mon_call.account # None
         => /\ mon_call.queried
                 <=> \/ mon_call.first
                     \/ mon_call.elapsed >= BounceCheckSeconds
                     \/ mon_call.cnt >= BounceCheckEmails
            /\ mon_call.queried
                 => /\ mon_call.sends <= BounceCheckEmails
                    /\ mon_call.account \in last_bounce_check
                    /\ emails_sent_since_check[mon_call.account] = 0
                    /\ mon_clock[mon_call.account] = 0
            /\ ~mon_call.queried
                 => /\ emails_sent_since_check[mon_call.account] = mon_call.cnt
                    /\ mon_clock[mon_call.account] = mon_call.elapsed
    /\ \A a \in Accounts : mon_sends[a] < BounceCheckEmails

\* C27 witness: a check performed less than BounceCheckSeconds after the one
\* before, because the BounceCheckEmails-th send since then was just counted
MonitorCadenceWitness ==
    /\ mon_call.account # None
    /\ mon_call.queried /\ ~mon_call.first
    /\ mon_call.elapsed < BounceCheckSeconds
    /\ mon_call.cnt = BounceCheckEmails
    /\ mon_call.sends = BounceCheckEmails

\* the bounce check of worker a answers True in this step: after a send
\* (send_email returns False though the mail was recorded), or at the top of
\* the loop of a worker that is not stopped, not at its limit and not failed
SignalStep(a) ==
    \/ pc[a] = "record" /\ pc'[a] = "idle"
    \/ /\ pc[a] = "idle" /\ pc'[a] = "stopped"
       /\ sending_active
       /\ history.daily[a] < daily_limit(a)
       /\ a \notin failed_accounts

\* C28: a bounce check that answers True puts its account into the failed
\* set and writes it to the config file as disabled (enabled false with a
\* disabled_until) unless the write fails, which leaves the file as it was;
\* an account in the failed set makes no Transport.Send call, stays in the
\* set, and its worker takes no step but the one that stops it; and the
\* worker does stop
MonitorSignalStops ==
    /\ [][\A a \in Accounts :
            SignalStep(a)
                => /\ a \in failed_accounts'
                   /\ \/ ~cfg_enabled'[a] /\ cfg_disabled_until'[a]
                      \/ cfg_enabled' = cfg_enabled
                            /\ cfg_disabled_until' = cfg_disabled_until
                   /\ \A b \in Accounts \ {a} :
                        /\ cfg_enabled'[b] = cfg_enabled[b]
                        /\ cfg_disabled_until'[b] = cfg_disabled_until[b]]_vars
    /\ [][\A a \in failed_accounts :
            /\ ~SendStep(a)
            /\ a \in failed_accounts'
            /\ pc[a] \in {"idle", "stopped"}
            /\ pc'[a] # pc[a] => pc'[a] = "stopped"]_vars
    /\ \A a \in Accounts : (a \in failed_accounts) ~> (pc[a] = "stopped")

\* C28 witness: the check after the first send of an account answered True and
\* the disable could not be written; the worker has stopped with one send
\* recorded, counted as failed, while a recipient is still queued
MonitorSignalWitness ==
    \E a \in Accounts :
        /\ a \in failed_accounts /\ last_outcome[a] = "ok"
        /\ cfg_enabled[a] /\ ~cfg_disabled_until[a]
        /\ pc[a] = "stopped"
        /\ SumDaily(history.recipients, Addresses) = 1
        /\ account_stats[a].sent = 0 /\ account_stats[a].failed = 1
        /\ queue # <<>>

\* the first message of the list that can be read and whose text has a phrase
\* of one of the sets of K (0: there is none)
FirstMatching(K) ==
    IF \E i \in 1..Len(messages) :
           messages[i].readable /\ messages[i].text \cap K # {}
    THEN CHOOSE i \in 1..Len(messages) :
           /\ messages[i].readable /\ messages[i].text \cap K # {}
           /\ \A j \in 1..(i - 1) :
                ~(messages[j].readable /\ messages[j].text \cap K # {})
    ELSE 0

\* the first of the sets rate-limit, blocked/rejected, invalid-mailbox that
\* the text t matches
FirstKind(t) ==
    IF "rate_limit" \in t THEN "rate_limit"
    ELSE IF "blocked" \in t THEN "blocked"
    ELSE "invalid_mailbox"

EnabledWithQuota(b) ==
    /\ b \in active_accounts
    /\ b \notin failed_accounts
    /\ cfg_enabled[b]
    /\ history.daily[b] < daily_limit(b)

\* the worker of a failed account a has stopped and the recipient r it held is
\* back in the queue
RequeuedAfterFailure(a, r) ==
    /\ pc[a] = "stopped" /\ a \in failed_accounts
    /\ recipient[a] = r /\ InQueue(r)

\* C30: a recipient put back into the queue when its account failed is
\* eventually taken by the worker of another account, as long as some other
\* account is enabled with quota left in the run
RequeuedEventuallyServed ==
    \A a \in Accounts : \A r \in Addresses :
        (RequeuedAfterFailure(a, r) /\ \E b \in Accounts \ {a} : EnabledWithQuota(b))
            ~> \/ \E b \in Accounts \ {a} : recipient[b] = r
               \/ ~\E b \in Accounts \ {a} : EnabledWithQuota(b)

\* the outcomes of Transport.Send that are authentication or credential
\* errors, on either transport
AuthErrors == {"credentials", "auth_other", "password_file", "login_failed"}

\* C31: after an authentication or credential error of Transport.Send the
\* account is marked failed and its worker stops, on both transports
AuthErrorIsAccountFatal ==
    [][\A a \in Accounts :
         (SendStep(a) /\ last_outcome'[a] \in AuthErrors)
             => /\ a \in failed_accounts'
                /\ pc'[a] = "stopped"]_vars

\* a step leaves every entry of the history, in memory and in the file, in
\* place with a send_count that is not lower; the history in memory changes by
\* one record at a time, which adds exactly 1 to the send_count of one address
\* (a new entry starts at 1)
LedgerStepGrows ==
    /\ \A r \in Addresses :
         /\ history'.recipients[r] >= history.recipients[r]
         /\ file_history'.recipients[r] >= file_history.recipients[r]
    /\ history'.recipients # history.recipients
         => \E a \in Accounts :
              /\ pc[a] = "record"
              /\ history'.recipients =
                   [history.recipients EXCEPT ![Lower(recipient[a])] = @ + 1]

\* a record for an address the history already holds is for an address on
\* the test whitelist
ResendStepWhitelisted ==
    \A a \in Accounts :
        (/\ pc[a] = "record" /\ pc'[a] # "record"
         /\ history.recipients[Lower(recipient[a])] > 0)
            => OnWhitelistAnyCase(recipient[a])

\* C32: entries of the history are created or updated and never deleted: no
\* step removes an address or lowers a send_count; a resend to an address the
\* history already holds adds exactly 1 to its send_count and makes no second
\* entry; and such a resend happens only for an address on the test whitelist
LedgerUpsertOnly ==
    [][LedgerStepGrows /\ ResendStepWhitelisted]_vars

\* C33: whenever every worker has stopped and the queue holds no item, the
\* queue's count of unfinished tasks is 0, so that recipient_queue.join()
\* returns; also after a failing worker put its recipient back and another
\* worker took and completed it
QueueAccounting ==
    (AllStopped /\ queue = <<>>) => unfinished_tasks = 0

\* the Transport.Send successes of this run, and the records written in it
\* (the first run starts with no recipient of the list recorded)
SendSuccesses == SumDaily(sendsOK, Addresses)
RecordsWritten == SumDaily(history.recipients, Addresses)

\* C34: once every worker of the run has returned, the total sent count of the
\* summary (the sum of the per-account sent counts, which are incremented
\* together with it) is the number of Transport.Send successes, which is the
\* number of records written in the run: no message that was sent and
\* recorded is counted as failed
SummaryConsistency ==
    (run = 1 /\ AllStopped)
        => /\ sent_count = SendSuccesses
           /\ SendSuccesses = RecordsWritten

\* worker a is at the top of its loop for the first bounce check of its
\* account, with nothing else stopping it: no stop request, quota left, the
\* account not failed
FirstCheckDue(a) ==
    /\ pc[a] = "idle" /\ pc'[a] # "idle"
    /\ a \notin last_bounce_check
    /\ sending_active
    /\ history.daily[a] < daily_limit(a)
    /\ a \notin failed_accounts

\* C35: the first bounce check of an account's worker is performed before the
\* worker's first Transport.Send call; when the mailbox it reads holds a
\* matching notice the worker stops there, its account marked failed, without
\* having made a Transport.Send call, and a stopped worker makes none
FirstCheckBeforeFirstSend ==
    [][\A a \in Accounts :
         /\ FirstCheckDue(a)
              => /\ mailbox_read'.account = a
                 /\ last_outcome[a] = None
                 /\ mailbox_read'.mailbox = "bounce"
                      => /\ pc'[a] = "stopped"
                         /\ a \in failed_accounts'
                         /\ last_outcome'[a] = None
         /\ SendStep(a) => a \in last_bounce_check
         /\ pc[a] = "stopped" => pc'[a] = "stopped" /\ ~SendStep(a)]_vars

\* C35 witness: the first check of an account found a notice and its worker
\* has stopped without a Transport.Send call, while a recipient is queued and
\* the other account is sending
FirstCheckWitness ==
    \E a, b \in Accounts :
        /\ mailbox_read = [account |-> a, mailbox |-> "bounce"]
        /\ pc[a] = "stopped" /\ a \in failed_accounts
        /\ last_outcome[a] = None /\ account_stats[a] = [sent |-> 0, failed |-> 0]
        /\ queue # <<>>
        /\ pc[b] = "send"

\* the sending threads that are alive
AliveThreads == {t \in Threads : thread_pc[t] \in {"setup", "sending", "finally"}}

\* C36: in the web app at most one sending thread is alive at any time: a
\* start request is accepted only when no thread started before is still
\* running, also when it follows a stop request at once
AtMostOneRunActive ==
    /\ Cardinality(AliveThreads) <= 1
    /\ sending_thread # 0 => AliveThreads \subseteq {sending_thread}

\* the worker of account a takes a step
WorkerStep(a) == pc'[a] # pc[a]

\* C37: a step of the worker of account a changes no counter of today and no
\* stats of another account; a Transport.Send call that fails, and the skip
\* of a recipient found recorded, leave the recipient entries, the counters of
\* today of all accounts and the history file as they were
WorkerFrame ==
    [][\A a \in Accounts :
         /\ WorkerStep(a)
              => \A b \in Accounts \ {a} :
                   /\ history'.daily[b] = history.daily[b]
                   /\ account_stats'[b] = account_stats[b]
         /\ (SendStep(a) /\ last_outcome'[a] # "ok")
              => history' = history /\ file_history' = file_history
         /\ (pc[a] = "recheck" /\ pc'[a] = "idle")
              => history' = history /\ file_history' = file_history]_vars

\* C37 witness: one worker has sent, recorded and saved; the other has then
\* failed a send, and the history and the file are as the first left them
WorkerFrameWitness ==
    \E a, b \in Accounts :
        /\ a # b
        /\ last_outcome[a] = "transient" /\ pc[a] = "idle"
        /\ account_stats[a] = [sent |-> 0, failed |-> 1]
        /\ account_stats[b] = [sent |-> 1, failed |-> 0]
        /\ history.daily[b] > 0
        /\ RecordsWritten = 1
        /\ file_history = history

\* C38: in a run started with max_emails = m > 0 at most m Transport.Send
\* calls succeed, and at most 1 in test mode, whatever the accounts, the
\* interleaving, the failures and the put-backs
BatchCap ==
    /\ max_emails > 0 => SendSuccesses <= max_emails
    /\ test_mode => SendSuccesses <= 1

\* C38 witness: a list of two distinct rows sent with max_emails = 1: the
\* first account failed on the one queued recipient and put it back, the
\* second sent it, and the run has ended with the second row never sent
BatchCapWitness ==
    \E a, b \in Accounts :
        /\ a # b
        /\ max_emails = 1 /\ ~test_mode
        /\ Len(csv) = 2 /\ csv[1] # csv[2]
        /\ last_outcome[a] = "auth_other"
        /\ account_stats[b].sent = 1
        /\ AllStopped
        /\ sendsOK[csv[1]] = 1 /\ sendsOK[csv[2]] = 0

\* the recipients process_csv put into the queue of the first run
Seeded ==
    Len(Seed(csv, StartHistory([a \in Accounts |-> 0]), max_emails, test_mode))

\* C39: once every worker of the run has returned, the recipients counted
\* sent, those counted failed, those skipped as already sent and those still
\* in the queue are together as many as were queued at the start: every
\* recipient is in one of the groups and none in two
RecipientConservation ==
    (run = 1 /\ AllStopped)
        => sent_count + failed_count + skipped + Len(queue) = Seeded
====
